---------------------------- MODULE Spec2Model ----------------------------
(***************************************************************************)
(* docs/sphinx/source/conf.py of flutter-project-template.                 *)
(*                                                                         *)
(* The file is a Python module of thirteen module-level assignment         *)
(* statements.  Loading it executes the statements top to bottom in a      *)
(* fresh namespace; the documentation tool then reads the namespace once,  *)
(* dispatches each source file on its suffix and discards the settings.    *)
(*                                                                         *)
(* Python values are modelled as: str -> string, int -> integer,           *)
(* list -> sequence, dict -> function.  A namespace is a function whose    *)
(* DOMAIN is the set of names bound so far.                                *)
(***************************************************************************)
EXTENDS Integers, Sequences, FiniteSets, TLC

VARIABLES env, pc, ns, tool, config, docs

vars == <<env, pc, ns, tool, config, docs>>

---------------------------------------------------------------------------
(* The environment a load starts from.  These sets bound the inputs.       *)

Cwds == {"/", "/repo", "/repo/docs/sphinx/source"}

Environs == {"", "RELEASE=9.9.9", "READTHEDOCS=True"}

PriorStates == {"fresh", "rebuild"}

Envs == [cwd : Cwds, environ : Environs, prior : PriorStates]

(* Suffixes of the source files handed to the tool.                        *)
Suffixes == {".rst", ".md", ".txt", ".dart"}

(* At most this many source files are dispatched in one run.               *)
MaxFiles == 3

---------------------------------------------------------------------------
(* The statements of conf.py.  Stmt...(e) is the statement with its        *)
(* right-hand side evaluated in environment e; every right-hand side in    *)
(* the file is a literal, so none of them reads e.  The operators named    *)
(* Bug... are faulty variants of the statement that follows them.          *)

BugProjectRenamed(e) == [target |-> "project", value |-> "Flutter Template"]

StmtProject(e) == [target |-> "project", value |-> "Flutter Project Template"]

StmtCopyright(e) == [target |-> "copyright", value |-> "2025, yudame"]

StmtAuthor(e) == [target |-> "author", value |-> "yudame"]

BugReleaseFromEnviron(e) == [target |-> "release", value |-> e.environ]

StmtRelease(e) == [target |-> "release", value |-> "0.1.0"]

BugExtensionsTwo(e) ==
    [target |-> "extensions", value |-> <<"myst_parser", "sphinx.ext.autodoc">>]

BugExtensionsRecommonmark(e) ==
    [target |-> "extensions", value |-> <<"recommonmark">>]

StmtExtensions(e) == [target |-> "extensions", value |-> <<"myst_parser">>]

StmtTemplatesPath(e) == [target |-> "templates_path", value |-> <<"_templates">>]

StmtExcludePatterns(e) ==
    [target |-> "exclude_patterns",
     value  |-> <<"_build", "Thumbs.db", ".DS_Store">>]

BugThemeAlabaster(e) == [target |-> "html_theme", value |-> "alabaster"]

StmtHtmlTheme(e) == [target |-> "html_theme", value |-> "sphinx_rtd_theme"]

BugStaticPathRebindsTemplates(e) ==
    [target |-> "templates_path", value |-> <<"_static">>]

StmtHtmlStaticPath(e) == [target |-> "html_static_path", value |-> <<"_static">>]

StmtHtmlCssFiles(e) == [target |-> "html_css_files", value |-> <<"css/custom.css">>]

BugMystFlagsDuplicate(e) ==
    [target |-> "myst_enable_extensions",
     value  |-> <<"colon_fence", "deflist", "html_admonition", "html_image",
                  "linkify", "smartquotes", "smartquotes">>]

StmtMystEnableExtensions(e) ==
    [target |-> "myst_enable_extensions",
     value  |-> <<"colon_fence", "deflist", "html_admonition", "html_image",
                  "linkify", "smartquotes", "tasklist">>]

BugHeadingAnchorsTwo(e) == [target |-> "myst_heading_anchors", value |-> 2]

StmtMystHeadingAnchors(e) == [target |-> "myst_heading_anchors", value |-> 3]

BugSourceSuffixTxt(e) ==
    [target |-> "source_suffix",
     value  |-> [s \in {".rst", ".md", ".txt"} |->
                    IF s = ".rst" THEN "restructuredtext" ELSE "markdown"]]

StmtSourceSuffix(e) ==
    [target |-> "source_suffix",
     value  |-> [s \in {".rst", ".md"} |->
                    IF s = ".rst" THEN "restructuredtext" ELSE "markdown"]]

(* The module body, in file order.                                         *)
Program(e) ==
    << StmtProject(e), StmtCopyright(e), StmtAuthor(e), StmtRelease(e),
       StmtExtensions(e), StmtTemplatesPath(e), StmtExcludePatterns(e),
       StmtHtmlTheme(e), StmtHtmlStaticPath(e), StmtHtmlCssFiles(e),
       StmtMystEnableExtensions(e), StmtMystHeadingAnchors(e),
       StmtSourceSuffix(e) >>

(* The names conf.py binds.                                                *)
SettingNames ==
    UNION { { Program(e)[i].target : i \in 1..Len(Program(e)) } : e \in Envs }

(* A module-level assignment  target = value : binds or rebinds target.    *)
Assign(namespace, stmt) == (stmt.target :> stmt.value) @@ namespace

(* The namespace is empty before the first statement.                      *)
EmptyNamespace == <<>>

(* The whole module body run in environment e, from statement i on.        *)
RECURSIVE RunFrom(_, _, _)
RunFrom(e, i, namespace) ==
    IF i > Len(Program(e)) THEN namespace
    ELSE RunFrom(e, i + 1, Assign(namespace, Program(e)[i]))

Load(e) == RunFrom(e, 1, EmptyNamespace)

Loaded == pc > Len(Program(env))

---------------------------------------------------------------------------
(* The documentation tool.                                                 *)

(* The parser the tool selects for a file suffix under settings cfg.       *)
Dispatch(cfg, suffix) ==
    IF suffix \in DOMAIN cfg["source_suffix"]
    THEN cfg["source_suffix"][suffix]
    ELSE "none"

Range(seq) == { seq[i] : i \in DOMAIN seq }

(* The parsers the tool has once the listed extensions are set up.         *)
AvailableParsers(cfg) ==
    {"restructuredtext"} \cup
    (IF "myst_parser" \in Range(cfg["extensions"]) THEN {"markdown"} ELSE {})

---------------------------------------------------------------------------

Init ==
    /\ env \in Envs
    /\ pc = 1
    /\ ns = EmptyNamespace
    /\ tool = "idle"
    /\ config = EmptyNamespace
    /\ docs = <<>>

(* Execute the next statement of conf.py.                                  *)
ExecStmt ==
    /\ pc <= Len(Program(env))
    /\ ns' = Assign(ns, Program(env)[pc])
    /\ pc' = pc + 1
    /\ UNCHANGED <<env, tool, config, docs>>

(* The tool reads the settings, once, after the load.                      *)
ToolRead ==
    /\ Loaded
    /\ tool = "idle"
    /\ config' = ns
    /\ tool' = "read"
    /\ UNCHANGED <<env, pc, ns, docs>>

(* The tool picks the parser for one source file.                          *)
ToolDispatch ==
    /\ tool = "read"
    /\ Len(docs) < MaxFiles
    /\ \E s \in Suffixes :
          docs' = Append(docs, [suffix |-> s, parser |-> Dispatch(config, s)])
    /\ UNCHANGED <<env, pc, ns, tool, config>>

(* The tool finishes and drops its copy of the settings.                   *)
ToolDiscard ==
    /\ tool = "read"
    /\ tool' = "done"
    /\ config' = EmptyNamespace
    /\ UNCHANGED <<env, pc, ns, docs>>

Next == ExecStmt \/ ToolRead \/ ToolDispatch \/ ToolDiscard

Spec == Init /\ [][Next]_vars

---------------------------------------------------------------------------
(* Properties.                                                             *)

ClaimedSettings ==
    {"project", "copyright", "author", "release", "extensions",
     "templates_path", "exclude_patterns", "html_theme", "html_static_path",
     "html_css_files", "myst_enable_extensions", "myst_heading_anchors",
     "source_suffix"}

(* C1: once a setting is bound it keeps its value in every later step of   *)
(* the run (the rest of the load, the tool's read, dispatch and discard);  *)
(* no statement assigns a name that is already bound; and after the load   *)
(* exactly the thirteen settings are bound.                                *)
C1_SetOnceNeverMutated ==
    /\ [](Loaded => DOMAIN ns = ClaimedSettings)
    /\ [][ /\ \A k \in DOMAIN ns : k \in DOMAIN ns' /\ ns'[k] = ns[k]
           /\ pc' # pc => Program(env)[pc].target \notin DOMAIN ns ]_vars

(* A finished run: loaded, read once, files dispatched, settings dropped.  *)
C1_Witness ==
    /\ Loaded
    /\ tool = "done"
    /\ Len(docs) = MaxFiles
    /\ DOMAIN ns = ClaimedSettings

(* C2: after load source_suffix has exactly the keys .rst and .md, mapped  *)
(* to restructuredtext and markdown; dispatch picks those two distinct     *)
(* parsers for the two suffixes and no parser for any other suffix.        *)
C2_SourceSuffixMapping ==
    Loaded =>
        /\ DOMAIN ns["source_suffix"] = {".rst", ".md"}
        /\ ns["source_suffix"][".rst"] = "restructuredtext"
        /\ ns["source_suffix"][".md"] = "markdown"
        /\ Dispatch(ns, ".rst") # Dispatch(ns, ".md")
        /\ \A s \in Suffixes \ {".rst", ".md"} : Dispatch(ns, s) = "none"
        /\ \A i \in DOMAIN docs :
              docs[i].parser =
                  IF docs[i].suffix = ".rst" THEN "restructuredtext"
                  ELSE IF docs[i].suffix = ".md" THEN "markdown"
                  ELSE "none"

(* The tool has dispatched a .rst file, a .md file and a file of another   *)
(* suffix.                                                                 *)
C2_Witness ==
    /\ Loaded
    /\ \E i, j, k \in DOMAIN docs :
          /\ docs[i].suffix = ".rst"
          /\ docs[j].suffix = ".md"
          /\ docs[k].suffix = ".txt" /\ docs[k].parser = "none"

(* C3: after load extensions is a sequence of length exactly 1 whose only  *)
(* element is myst_parser.                                                 *)
C3_ExtensionsSingleton ==
    Loaded =>
        /\ Len(ns["extensions"]) = 1
        /\ ns["extensions"][1] = "myst_parser"

C3_Witness == Loaded /\ tool = "idle" /\ ns["extensions"] # <<>>

(* C4: after load myst_enable_extensions has exactly seven entries, all    *)
(* pairwise distinct, and as a set equals the seven named flags.           *)
C4_SevenMystFlags ==
    Loaded =>
        LET flags == ns["myst_enable_extensions"] IN
        /\ Len(flags) = 7
        /\ \A i, j \in DOMAIN flags : i # j => flags[i] # flags[j]
        /\ Range(flags) = {"colon_fence", "deflist", "html_admonition",
                           "html_image", "linkify", "smartquotes", "tasklist"}

C4_Witness ==
    Loaded /\ Cardinality(Range(ns["myst_enable_extensions"])) > 1

(* C5: after load project equals "Flutter Project Template".               *)
C5_ProjectName == Loaded => ns["project"] = "Flutter Project Template"

C5_Witness == Loaded /\ "project" \in DOMAIN ns /\ tool = "read"

(* C6: after load html_theme equals "sphinx_rtd_theme".                    *)
C6_HtmlTheme == Loaded => ns["html_theme"] = "sphinx_rtd_theme"

C6_Witness == Loaded /\ "html_theme" \in DOMAIN ns /\ docs # <<>>

(* C7: after load myst_heading_anchors is an integer and its value is 3.   *)
C7_HeadingAnchors ==
    Loaded =>
        /\ ns["myst_heading_anchors"] \in Int
        /\ ns["myst_heading_anchors"] = 3

C7_Witness == Loaded /\ ns["myst_heading_anchors"] > 0

(* C8: after load, if source_suffix maps some suffix to markdown, or       *)
(* myst_enable_extensions is non-empty, or myst_heading_anchors is set,    *)
(* then myst_parser is in extensions; every content type source_suffix     *)
(* dispatches to, and every parser picked for a file, is available.        *)
C8_MarkdownConsistent ==
    Loaded =>
        LET usesMarkdown ==
                \/ \E s \in DOMAIN ns["source_suffix"] :
                      ns["source_suffix"][s] = "markdown"
                \/ ns["myst_enable_extensions"] # <<>>
                \/ "myst_heading_anchors" \in DOMAIN ns
        IN  /\ usesMarkdown => "myst_parser" \in Range(ns["extensions"])
            /\ \A s \in DOMAIN ns["source_suffix"] :
                  ns["source_suffix"][s] \in AvailableParsers(ns)
            /\ \A i \in DOMAIN docs :
                  docs[i].parser \in AvailableParsers(ns) \cup {"none"}

(* A Markdown file has been dispatched to the markdown parser.             *)
C8_Witness ==
    /\ Loaded
    /\ \E s \in DOMAIN ns["source_suffix"] : ns["source_suffix"][s] = "markdown"
    /\ \E i \in DOMAIN docs : docs[i].parser = "markdown"

(* C9: a load started from any environment ends with the settings that a   *)
(* load started from any other environment ends with.                      *)
C9_LoadIgnoresEnvironment ==
    Loaded => \A e \in Envs : ns = Load(e)

(* A load that started away from the default environment has finished.     *)
C9_Witness ==
    /\ Loaded
    /\ env.cwd # "/" /\ env.environ # "" /\ env.prior = "rebuild"
    /\ \E e \in Envs : e # env

===========================================================================
